---- MODULE Spec2Model ----
(***************************************************************************)
(* Model of the PIC32 ADC driver of the BitSafe tester (src/adc.c) and of  *)
(* the part of main.c that brings it up.                                   *)
(*                                                                         *)
(* Software state: adc_sample_buffer, sample_buffer_current_index,         *)
(* sample_buffer_full, the position of the foreground code inside          *)
(* beginFillingADCBuffer()/testADC() and the position of the interrupt     *)
(* handler _ADCHandler().                                                  *)
(* Hardware state, as initADC() configures it: Timer3 (T3CON.ON) triggers  *)
(* conversions, the ADC writes each result into the next slot of the bank  *)
(* it is filling (BUFM = 1, two banks of 8), and raises AD1IF after every  *)
(* 8 conversions (SMPI = 7), then fills the other bank.                    *)
(* The hardware and the CPU run at unrelated speeds: a conversion may      *)
(* complete at any point of the foreground code or of the handler.         *)
(***************************************************************************)
EXTENDS Integers, Sequences, FiniteSets

\* Largest SAMPLE_BUFFER_SIZE explored (the size itself is set in adc.h).
MaxN == 10
\* Number of conversions after which the model stops the hardware.
MaxConv == 20
\* The same, where the progress of a batch is followed to its end.
MaxConvLive == 32

\* AD1CON2bits.SMPI + 1: conversions per interrupt, and slots per bank.
BankSize == 8
\* sample &= 0x3ff keeps the sample modulo this.
SampleMod == 1024

VARIABLES
    N,                              \* SAMPLE_BUFFER_SIZE
    gen,                            \* what the analog input converts to
    adc_sample_buffer,
    sample_buffer_current_index,
    sample_buffer_full,
    T3ON,                           \* T3CONbits.ON
    ADC1BUF,                        \* ADC1BUF0 .. ADC1BUFF
    BUFS,                           \* AD1CON2bits.BUFS
    bufptr,                         \* next slot of the bank being filled
    converting,                     \* a triggered conversion is in progress
    AD1IF,                          \* IFS1bits.AD1IF
    seq,                            \* conversions completed so far
    IE,                             \* CPU interrupt enable
    status,                         \* beginFillingADCBuffer's local
    pc,                             \* foreground position
    inTest,                         \* the caller is testADC()
    hpc,                            \* handler position, 0: not running
    hbase,                          \* first slot of the bank being drained
    written,                        \* ghost: positions stored since start
    drained,                        \* ghost: samples passed to insertSample since start
    discarded,                      \* ghost: insertSample calls without a store, since start
    batchSeq,                       \* ghost: seq when the last start was called
    hruns,                          \* ghost: handler invocations completed since start
    nstarts,                        \* ghost: start calls so far (saturates at 2)
    sigInReset,                     \* ghost: pending signal was raised inside start's reset
    origin                          \* ghost: the state the last start was called in

hw == <<T3ON, ADC1BUF, BUFS, bufptr, converting, AD1IF, seq>>
sw == <<adc_sample_buffer, sample_buffer_current_index, sample_buffer_full>>
ghost == <<written, drained, discarded, batchSeq, hruns, nstarts, sigInReset, origin>>
vars == <<N, gen, sw, hw, IE, status, pc, inTest, hpc, hbase, ghost>>

Slots == 0 .. (2 * BankSize - 1)
\* The statements of beginFillingADCBuffer that run with interrupts disabled.
Critical == {"l164", "l165", "l166", "l167"}

\* Analog inputs whose raw result has bits set above the 10 the ADC delivers.
WideGens == {"wide1", "wideMax", "wideMix"}
\* Bits 10..30 of a raw result, all set.
MaxRawHigh == 2^21 - 1

\* State after main() has run initADC() and restoreInterrupts(1).
Configured ==
    /\ N \in 1 .. MaxN
    /\ adc_sample_buffer = [i \in 0 .. (N - 1) |-> 0]
    /\ sample_buffer_current_index = 0
    /\ sample_buffer_full = 0
    /\ T3ON = FALSE
    /\ ADC1BUF = [s \in Slots |-> 0]
    /\ BUFS = 0
    /\ bufptr = 0
    /\ converting = FALSE
    /\ AD1IF = 0
    /\ seq = 0
    /\ IE = 1
    /\ status = 0
    /\ pc = "fg"
    /\ inTest = FALSE
    /\ hpc = 0
    /\ hbase = 0
    /\ written = {}
    /\ drained = <<>>
    /\ discarded = 0
    /\ batchSeq = 0
    /\ hruns = 0
    /\ nstarts = 0
    /\ sigInReset = FALSE
    /\ origin = "none"

Init ==
    /\ gen \in {"seq", "slot"}
    /\ Configured

\* The same start with raw results that use the full width of the result
\* register.
InitWide ==
    /\ gen \in WideGens
    /\ Configured

----------------------------------------------------------------------------
(* Hardware *)

\* Timer3 period match: ends sampling and starts a conversion (SSRC = 2).
\* The model follows the hardware for `cap` conversions.
Timer3MatchUpTo(cap) ==
    /\ T3ON
    /\ ~converting
    /\ seq < cap
    /\ converting' = TRUE
    /\ UNCHANGED <<N, gen, sw, T3ON, ADC1BUF, BUFS, bufptr, AD1IF, seq,
                   IE, status, pc, inTest, hpc, hbase, ghost>>

Timer3Match == Timer3MatchUpTo(MaxConv)

\* The raw result of the conversion now completing, written to `slot`.
ConversionResult(slot) ==
    IF gen = "slot" THEN slot % BankSize
    ELSE IF gen = "seq" THEN seq + 1
    ELSE LET high == IF gen = "wide1" THEN 1
                     ELSE IF gen = "wideMax" \/ seq % 2 = 0 THEN MaxRawHigh
                     ELSE 0
         IN  SampleMod * high + (SampleMod - 1 - seq)

\* The conversion completes: its result goes to the next slot of the bank
\* being filled; after the 8th the ADC raises AD1IF and switches banks.
ConversionDone ==
    /\ converting
    /\ converting' = FALSE
    /\ seq' = seq + 1
    /\ LET slot == BankSize * BUFS + bufptr IN
         ADC1BUF' = [ADC1BUF EXCEPT ![slot] = ConversionResult(slot)]
    /\ IF bufptr = BankSize - 1
         THEN /\ bufptr' = 0
              /\ BUFS' = 1 - BUFS
              /\ AD1IF' = 1
              /\ sigInReset' = IF AD1IF = 1 THEN sigInReset ELSE pc \in Critical
         ELSE /\ bufptr' = bufptr + 1
              /\ UNCHANGED <<BUFS, AD1IF, sigInReset>>
    /\ UNCHANGED <<N, gen, sw, T3ON, IE, status, pc, inTest, hpc, hbase,
                   written, drained, discarded, batchSeq, hruns, nstarts, origin>>

----------------------------------------------------------------------------
(* insertSample *)

\* adc_sample_buffer[i] = v. The array has N entries; a store past its end
\* lands outside the array and leaves its entries alone.
Store(buf, i, v) ==
    IF i \in DOMAIN buf THEN [buf EXCEPT ![i] = v] ELSE buf

\* insertSample with the bounds test off by one (> for >=).
insertSample_gt(raw) ==
    LET sample == raw % SampleMod IN
    /\ drained' = Append(drained, raw)
    /\ IF sample_buffer_current_index > N
         THEN /\ T3ON' = FALSE
              /\ sample_buffer_full' = 1
              /\ discarded' = discarded + 1
              /\ UNCHANGED <<adc_sample_buffer, sample_buffer_current_index, written>>
         ELSE /\ adc_sample_buffer' =
                    Store(adc_sample_buffer, sample_buffer_current_index, sample)
              /\ written' = written \cup {sample_buffer_current_index}
              /\ sample_buffer_current_index' = sample_buffer_current_index + 1
              /\ UNCHANGED <<T3ON, sample_buffer_full, discarded>>

\* insertSample with the bounds test off by one the other way: the last
\* entry is never stored.
insertSample_early(raw) ==
    LET sample == raw % SampleMod IN
    /\ drained' = Append(drained, raw)
    /\ IF sample_buffer_current_index >= N - 1
         THEN /\ T3ON' = FALSE
              /\ sample_buffer_full' = 1
              /\ discarded' = discarded + 1
              /\ UNCHANGED <<adc_sample_buffer, sample_buffer_current_index, written>>
         ELSE /\ adc_sample_buffer' =
                    Store(adc_sample_buffer, sample_buffer_current_index, sample)
              /\ written' = written \cup {sample_buffer_current_index}
              /\ sample_buffer_current_index' = sample_buffer_current_index + 1
              /\ UNCHANGED <<T3ON, sample_buffer_full, discarded>>

\* insertSample that sets the flag but leaves Timer3 running.
insertSample_noDisarm(raw) ==
    LET sample == raw % SampleMod IN
    /\ drained' = Append(drained, raw)
    /\ IF sample_buffer_current_index >= N
         THEN /\ sample_buffer_full' = 1
              /\ discarded' = discarded + 1
              /\ UNCHANGED <<T3ON, adc_sample_buffer, sample_buffer_current_index, written>>
         ELSE /\ adc_sample_buffer' =
                    Store(adc_sample_buffer, sample_buffer_current_index, sample)
              /\ written' = written \cup {sample_buffer_current_index}
              /\ sample_buffer_current_index' = sample_buffer_current_index + 1
              /\ UNCHANGED <<T3ON, sample_buffer_full, discarded>>

\* insertSample that rewinds the index when it finds the buffer full.
insertSample_wrap(raw) ==
    LET sample == raw % SampleMod IN
    /\ drained' = Append(drained, raw)
    /\ IF sample_buffer_current_index >= N
         THEN /\ T3ON' = FALSE
              /\ sample_buffer_full' = 1
              /\ sample_buffer_current_index' = 0
              /\ discarded' = discarded + 1
              /\ UNCHANGED <<adc_sample_buffer, written>>
         ELSE /\ adc_sample_buffer' =
                    Store(adc_sample_buffer, sample_buffer_current_index, sample)
              /\ written' = written \cup {sample_buffer_current_index}
              /\ sample_buffer_current_index' = sample_buffer_current_index + 1
              /\ UNCHANGED <<T3ON, sample_buffer_full, discarded>>

\* insertSample that turns Timer3 off but never sets the flag.
insertSample_noFlag(raw) ==
    LET sample == raw % SampleMod IN
    /\ drained' = Append(drained, raw)
    /\ IF sample_buffer_current_index >= N
         THEN /\ T3ON' = FALSE
              /\ discarded' = discarded + 1
              /\ UNCHANGED <<sample_buffer_full, adc_sample_buffer,
                             sample_buffer_current_index, written>>
         ELSE /\ adc_sample_buffer' =
                    Store(adc_sample_buffer, sample_buffer_current_index, sample)
              /\ written' = written \cup {sample_buffer_current_index}
              /\ sample_buffer_current_index' = sample_buffer_current_index + 1
              /\ UNCHANGED <<T3ON, sample_buffer_full, discarded>>

\* insertSample without the mask of line 101.
insertSample_nomask(raw) ==
    /\ drained' = Append(drained, raw)
    /\ IF sample_buffer_current_index >= N
         THEN /\ T3ON' = FALSE
              /\ sample_buffer_full' = 1
              /\ discarded' = discarded + 1
              /\ UNCHANGED <<adc_sample_buffer, sample_buffer_current_index, written>>
         ELSE /\ adc_sample_buffer' =
                    Store(adc_sample_buffer, sample_buffer_current_index, raw)
              /\ written' = written \cup {sample_buffer_current_index}
              /\ sample_buffer_current_index' = sample_buffer_current_index + 1
              /\ UNCHANGED <<T3ON, sample_buffer_full, discarded>>

\* insertSample(sample): mask to 10 bits; when the index has reached the
\* size, turn Timer3 off and set the flag; otherwise store and advance.
insertSample(raw) ==
    LET sample == raw % SampleMod IN
    /\ drained' = Append(drained, raw)
    /\ IF sample_buffer_current_index >= N
         THEN /\ T3ON' = FALSE
              /\ sample_buffer_full' = 1
              /\ discarded' = discarded + 1
              /\ UNCHANGED <<adc_sample_buffer, sample_buffer_current_index, written>>
         ELSE /\ adc_sample_buffer' =
                    Store(adc_sample_buffer, sample_buffer_current_index, sample)
              /\ written' = written \cup {sample_buffer_current_index}
              /\ sample_buffer_current_index' = sample_buffer_current_index + 1
              /\ UNCHANGED <<T3ON, sample_buffer_full, discarded>>

----------------------------------------------------------------------------
(* _ADCHandler *)

\* A handler that clears AD1IF first and reads the results afterwards.
ADCHandler_enter_clearFirst ==
    /\ hpc = 0
    /\ AD1IF = 1
    /\ IE = 1
    /\ hpc' = 1
    /\ hbase' = IF BUFS = 0 THEN BankSize ELSE 0
    /\ AD1IF' = 0
    /\ UNCHANGED <<N, gen, sw, T3ON, ADC1BUF, BUFS, bufptr, converting, seq,
                   IE, status, pc, inTest, ghost>>

\* A handler with the test of BUFS inverted: it drains the bank being filled.
ADCHandler_enter_inverted ==
    /\ hpc = 0
    /\ AD1IF = 1
    /\ IE = 1
    /\ hpc' = 1
    /\ hbase' = IF BUFS = 0 THEN 0 ELSE BankSize
    /\ UNCHANGED <<N, gen, sw, hw, IE, status, pc, inTest, ghost>>

\* The CPU takes the ADC interrupt: the flag is set and interrupts are
\* enabled (AD1IE is set by initADC). The handler reads BUFS and picks the
\* bank the ADC is not filling.
ADCHandler_enter ==
    /\ hpc = 0
    /\ AD1IF = 1
    /\ IE = 1
    /\ hpc' = 1
    /\ hbase' = IF BUFS = 0 THEN BankSize ELSE 0
    /\ UNCHANGED <<N, gen, sw, hw, IE, status, pc, inTest, ghost>>

\* A handler that stops draining once the buffer is full.
ADCHandler_insert_break ==
    /\ hpc \in 1 .. BankSize
    /\ IF sample_buffer_full # 0
         THEN /\ hpc' = BankSize + 1
              /\ UNCHANGED <<sw, T3ON, written, drained, discarded>>
         ELSE /\ insertSample(ADC1BUF[hbase + hpc - 1])
              /\ hpc' = hpc + 1
    /\ UNCHANGED <<N, gen, ADC1BUF, BUFS, bufptr, converting, AD1IF, seq,
                   IE, status, pc, inTest, hbase,
                   batchSeq, hruns, nstarts, sigInReset, origin>>

\* The hpc-th insertSample(ADC1BUFx) of the chosen branch.
ADCHandler_insert ==
    /\ hpc \in 1 .. BankSize
    /\ insertSample(ADC1BUF[hbase + hpc - 1])
    /\ hpc' = hpc + 1
    /\ UNCHANGED <<N, gen, ADC1BUF, BUFS, bufptr, converting, AD1IF, seq,
                   IE, status, pc, inTest, hbase,
                   batchSeq, hruns, nstarts, sigInReset, origin>>

\* IFS1bits.AD1IF = 0, and the return from the interrupt.
ADCHandler_clear ==
    /\ hpc = BankSize + 1
    /\ AD1IF' = 0
    /\ hpc' = 0
    /\ hruns' = hruns + 1
    /\ sigInReset' = FALSE
    /\ UNCHANGED <<N, gen, sw, T3ON, ADC1BUF, BUFS, bufptr, converting, seq,
                   IE, status, pc, inTest, hbase,
                   written, drained, discarded, batchSeq, nstarts, origin>>

----------------------------------------------------------------------------
(* beginFillingADCBuffer *)

\* disableInterrupts(): clears the CPU's interrupt enable and returns what
\* it was.
disableInterrupts(ret) ==
    /\ ret = IE
    /\ IE' = 0

\* restoreInterrupts(s): sets the CPU's interrupt enable to s.
restoreInterrupts(s) ==
    IE' = s

\* The batch controller's state, as the foreground sees it: Complete once
\* the flag is set, Idle while Timer3 has not been turned on, else Filling
\* (told apart by whether a sample has been stored).
BatchState ==
    IF sample_buffer_full # 0 THEN "complete"
    ELSE IF ~T3ON THEN "idle"
    ELSE IF sample_buffer_current_index > 0 THEN "midfill"
    ELSE "filling"

\* The ghosts of a batch start over when start is called.
NewBatch ==
    /\ written' = {}
    /\ drained' = <<>>
    /\ discarded' = 0
    /\ batchSeq' = seq
    /\ hruns' = 0
    /\ nstarts' = IF nstarts < 2 THEN nstarts + 1 ELSE nstarts
    /\ origin' = BatchState

\* Line 163 without the disabling of interrupts.
beginFillingADCBuffer_l163_enabled(test) ==
    /\ pc = "fg"
    /\ hpc = 0
    /\ status' = IE
    /\ UNCHANGED IE
    /\ pc' = "l164"
    /\ inTest' = test
    /\ NewBatch
    /\ UNCHANGED <<N, gen, sw, hw, hpc, hbase, sigInReset>>

\* The call, and status = disableInterrupts().
beginFillingADCBuffer_l163(test) ==
    /\ pc = "fg"
    /\ hpc = 0
    /\ disableInterrupts(status')
    /\ pc' = "l164"
    /\ inTest' = test
    /\ NewBatch
    /\ UNCHANGED <<N, gen, sw, hw, hpc, hbase, sigInReset>>

\* Line 164 left out: the index keeps its value.
beginFillingADCBuffer_l164_skip ==
    /\ pc = "l164"
    /\ hpc = 0
    /\ pc' = "l165"
    /\ UNCHANGED <<N, gen, sw, hw, IE, status, inTest, hpc, hbase, ghost>>

\* sample_buffer_current_index = 0.
beginFillingADCBuffer_l164 ==
    /\ pc = "l164"
    /\ hpc = 0
    /\ sample_buffer_current_index' = 0
    /\ pc' = "l165"
    /\ UNCHANGED <<N, gen, adc_sample_buffer, sample_buffer_full, hw,
                   IE, status, inTest, hpc, hbase, ghost>>

\* Line 165 left out: the flag keeps its value.
beginFillingADCBuffer_l165_skip ==
    /\ pc = "l165"
    /\ hpc = 0
    /\ pc' = "l166"
    /\ UNCHANGED <<N, gen, sw, hw, IE, status, inTest, hpc, hbase, ghost>>

\* sample_buffer_full = 0.
beginFillingADCBuffer_l165 ==
    /\ pc = "l165"
    /\ hpc = 0
    /\ sample_buffer_full' = 0
    /\ pc' = "l166"
    /\ UNCHANGED <<N, gen, adc_sample_buffer, sample_buffer_current_index, hw,
                   IE, status, inTest, hpc, hbase, ghost>>

\* A start that does not turn Timer3 on.
beginFillingADCBuffer_l166_skip ==
    /\ pc = "l166"
    /\ hpc = 0
    /\ pc' = "l167"
    /\ UNCHANGED <<N, gen, sw, hw, IE, status, inTest, hpc, hbase, ghost>>

\* T3CONbits.ON = 1.
beginFillingADCBuffer_l166 ==
    /\ pc = "l166"
    /\ hpc = 0
    /\ T3ON' = TRUE
    /\ pc' = "l167"
    /\ UNCHANGED <<N, gen, sw, ADC1BUF, BUFS, bufptr, converting, AD1IF, seq,
                   IE, status, inTest, hpc, hbase, ghost>>

\* restoreInterrupts(status).
beginFillingADCBuffer_l167 ==
    /\ pc = "l167"
    /\ hpc = 0
    /\ restoreInterrupts(status)
    /\ pc' = "l168"
    /\ UNCHANGED <<N, gen, sw, hw, status, inTest, hpc, hbase, ghost>>

\* The return to the caller: testADC goes on to poll the flag.
beginFillingADCBuffer_l168 ==
    /\ pc = "l168"
    /\ hpc = 0
    /\ pc' = IF inTest THEN "poll" ELSE "fg"
    /\ UNCHANGED <<N, gen, sw, hw, IE, status, inTest, hpc, hbase, ghost>>

----------------------------------------------------------------------------
(* testADC *)

\* A poll loop that gives up waiting.
testADC_l182_timeout ==
    /\ pc = "poll"
    /\ hpc = 0
    /\ pc' = "stats"
    /\ UNCHANGED <<N, gen, sw, hw, IE, status, inTest, hpc, hbase, ghost>>

\* while (sample_buffer_full == 0) {}: the loop is left once the flag is
\* non-zero; while it is zero the foreground stays here.
testADC_l182 ==
    /\ pc = "poll"
    /\ hpc = 0
    /\ sample_buffer_full # 0
    /\ pc' = "stats"
    /\ UNCHANGED <<N, gen, sw, hw, IE, status, inTest, hpc, hbase, ghost>>

\* The statistics and their display; testADC returns to main's loop.
testADC_l187 ==
    /\ pc = "stats"
    /\ hpc = 0
    /\ pc' = "fg"
    /\ inTest' = FALSE
    /\ UNCHANGED <<N, gen, sw, hw, IE, status, hpc, hbase, ghost>>

----------------------------------------------------------------------------

\* The ADC and Timer3.
Hardware ==
    \/ Timer3Match
    \/ ConversionDone

\* The interrupt handler, from its entry to its return.
Handler ==
    \/ ADCHandler_enter
    \/ ADCHandler_insert
    \/ ADCHandler_clear

\* The foreground: main's loop calls testADC, and a client of adc.h may call
\* beginFillingADCBuffer at any time.
Foreground ==
    \/ \E test \in BOOLEAN : beginFillingADCBuffer_l163(test)
    \/ beginFillingADCBuffer_l164
    \/ beginFillingADCBuffer_l165
    \/ beginFillingADCBuffer_l166
    \/ beginFillingADCBuffer_l167
    \/ beginFillingADCBuffer_l168
    \/ testADC_l182
    \/ testADC_l187

Next ==
    \/ Hardware
    \/ Handler
    \/ Foreground

Spec == Init /\ [][Next]_vars

\* The ADC interrupt is requested and the CPU accepts interrupts.
InterruptPending == AD1IF = 1 /\ IE = 1

\* The same system with the timing of the board: the CPU takes a pending
\* interrupt before its next foreground instruction, and the handler and the
\* reset of beginFillingADCBuffer are done well within the 1633-cycle period
\* between two conversions (no Timer3 match falls inside a call of
\* beginFillingADCBuffer or while a signal is waiting or being serviced; a
\* conversion under way may complete inside the call).
NextTimely ==
    \/ (AD1IF = 0 /\ hpc = 0 /\ pc \notin Critical \cup {"l168"} /\ Timer3Match)
    \/ (AD1IF = 0 /\ hpc = 0 /\ ConversionDone)
    \/ ADCHandler_enter
    \/ ADCHandler_insert
    \/ ADCHandler_clear
    \/ (~InterruptPending /\ \E test \in BOOLEAN : beginFillingADCBuffer_l163(test))
    \/ (~InterruptPending /\ beginFillingADCBuffer_l164)
    \/ (~InterruptPending /\ beginFillingADCBuffer_l165)
    \/ (~InterruptPending /\ beginFillingADCBuffer_l166)
    \/ (~InterruptPending /\ beginFillingADCBuffer_l167)
    \/ (~InterruptPending /\ beginFillingADCBuffer_l168)
    \/ (~InterruptPending /\ testADC_l182)
    \/ (~InterruptPending /\ testADC_l187)

SpecTimely == Init /\ [][NextTimely]_vars

\* What keeps running on the board: Timer3 while it is on, a conversion once
\* triggered, the handler once the interrupt is taken, and the foreground
\* inside beginFillingADCBuffer and in testADC's poll loop. Whether and when
\* beginFillingADCBuffer is called is left to the caller.
Fairness ==
    /\ WF_vars(AD1IF = 0 /\ hpc = 0 /\ pc \notin Critical \cup {"l168"}
                 /\ Timer3MatchUpTo(MaxConvLive))
    /\ WF_vars(AD1IF = 0 /\ hpc = 0 /\ ConversionDone)
    /\ WF_vars(Handler)
    /\ WF_vars(~InterruptPending /\ (\/ beginFillingADCBuffer_l164
                                     \/ beginFillingADCBuffer_l165
                                     \/ beginFillingADCBuffer_l166
                                     \/ beginFillingADCBuffer_l167
                                     \/ beginFillingADCBuffer_l168))
    /\ WF_vars(~InterruptPending /\ testADC_l182)

\* The board's timing, with the hardware followed for MaxConvLive conversions.
NextLive ==
    \/ NextTimely
    \/ (AD1IF = 0 /\ hpc = 0 /\ pc \notin Critical \cup {"l168"}
          /\ Timer3MatchUpTo(MaxConvLive))

SpecLive == Init /\ [][NextLive]_vars /\ Fairness

\* Unrelated speeds, raw results wider than 10 bits.
SpecWide == InitWide /\ [][Next]_vars

----------------------------------------------------------------------------
(* Properties *)

\* The foreground is outside the interrupt-suppressed reset of
\* beginFillingADCBuffer.
OutsideReset == pc \notin Critical

\* The handler is not running: the state is one foreground code can see.
Observable == hpc = 0 /\ OutsideReset

Positions == 0 .. (N - 1)

\* C1. Exact batch size: outside the reset, a non-zero sample_buffer_full
\* means the index equals the buffer size and every entry of the buffer has
\* been stored since the most recent start.
C1_ExactBatchSize ==
    (OutsideReset /\ sample_buffer_full # 0) =>
        /\ sample_buffer_current_index = N
        /\ written = Positions

\* A second batch has completed.
C1_Witness ==
    /\ Observable
    /\ sample_buffer_full # 0
    /\ nstarts = 2
    /\ written = Positions

\* C2. No out-of-bounds write: the index stays within 0 .. N and every store
\* of insertSample is at a position below N.
C2_NoOutOfBoundsWrite ==
    /\ sample_buffer_current_index \in 0 .. N
    /\ written \subseteq Positions

\* The handler is running again after the buffer became full: more inserts
\* have been turned away than one invocation makes.
C2_Witness ==
    /\ hpc \in 2 .. BankSize
    /\ sample_buffer_full # 0
    /\ discarded > BankSize
    /\ written = Positions

\* C3. The flag goes from zero to non-zero by the end of the insert that
\* stores the N-th sample, only then, and is cleared only by line 165 of
\* beginFillingADCBuffer.
C3_FullWhenIndexReachesN ==
    [][ /\ (sample_buffer_current_index # N /\ sample_buffer_current_index' = N)
            => sample_buffer_full' # 0
        /\ (sample_buffer_full = 0 /\ sample_buffer_full' # 0)
            => sample_buffer_current_index' = N
        /\ (sample_buffer_full # 0 /\ sample_buffer_full' = 0)
            => pc = "l165"
      ]_vars

\* C4. Nominal fill: with N a multiple of 8, after one start and exactly N/8
\* handler invocations, each draining the values 0..7 in slot order, the flag
\* is set, the buffer is 0..7 repeated and Timer3 is off.
C4_NominalFill ==
    ( /\ N % BankSize = 0
      /\ nstarts = 1
      /\ Observable
      /\ hruns = N \div BankSize
      /\ drained = [i \in 1 .. N |-> (i - 1) % BankSize] )
    => ( /\ sample_buffer_full # 0
         /\ adc_sample_buffer = [i \in Positions |-> i % BankSize]
         /\ ~T3ON )

\* C5. Once the flag is set (and until the next start resets the state) the
\* buffer, the index and the flag do not change and Timer3 stays off,
\* whatever the handler does.
C5_FullIsStable ==
    [][ (sample_buffer_full # 0 /\ OutsideReset) =>
            /\ ~T3ON
            /\ UNCHANGED <<adc_sample_buffer, sample_buffer_current_index,
                           sample_buffer_full, T3ON>>
      ]_vars

\* A whole handler invocation has run on the full buffer.
C5_Witness ==
    /\ Observable
    /\ sample_buffer_full # 0
    /\ discarded > BankSize
    /\ hruns > (N + BankSize - 1) \div BankSize

C7_NoTearing ==
    /\ hpc # 0 => OutsideReset
    /\ (hpc # 0 /\ sample_buffer_full # 0) => sample_buffer_current_index = N
    /\ (hpc = 1 /\ sigInReset) =>
          /\ sample_buffer_current_index = 0
          /\ sample_buffer_full = 0
          /\ T3ON

\* The handler has just been entered for a signal raised inside the reset of
\* a restart.
C7_Witness ==
    /\ hpc = 1
    /\ sigInReset
    /\ nstarts = 2

\* C8. Ordering: in a full buffer, entry i is the i-th conversion completed
\* since the start that began the batch.
C8_Ordering ==
    (gen = "seq" /\ OutsideReset /\ sample_buffer_full # 0) =>
        \A i \in Positions : adc_sample_buffer[i] = batchSeq + i + 1

\* C9. Restart mid-fill: after m handler invocations since the last start
\* (8m <= N), entries 0 .. 8m-1 are the samples those invocations drained, in
\* order, each stored since that start.
C9_RestartMidFill ==
    (Observable /\ BankSize * hruns <= N) =>
        /\ Len(drained) = BankSize * hruns
        /\ written = 0 .. (BankSize * hruns - 1)
        /\ \A i \in 0 .. (BankSize * hruns - 1) :
              adc_sample_buffer[i] = drained[i + 1] % SampleMod

\* One invocation after a restart that followed a stored bank.
C9_Witness ==
    /\ Observable
    /\ gen = "seq"
    /\ origin = "midfill"
    /\ hruns = 1
    /\ N >= BankSize
    /\ adc_sample_buffer[0] > BankSize

\* C10. Overrun discard: with N not a multiple of 8, after a start and
\* ceil(N/8) handler invocations the first N drained samples are stored in
\* order, the other 8*ceil(N/8) - N are discarded, the flag is set and no
\* store went outside the buffer.
C10_OverrunDiscard ==
    LET Signals == (N + BankSize - 1) \div BankSize IN
    (N % BankSize # 0 /\ Observable /\ hruns = Signals) =>
        /\ sample_buffer_full # 0
        /\ sample_buffer_current_index = N
        /\ written = Positions
        /\ Len(drained) = BankSize * Signals
        /\ \A i \in Positions : adc_sample_buffer[i] = drained[i + 1] % SampleMod
        /\ discarded = BankSize * Signals - N

\* N = 10: two signals, 10 stored, 6 discarded.
C10_Witness ==
    /\ N = 10
    /\ Observable
    /\ hruns = 2
    /\ sample_buffer_full # 0
    /\ discarded = 6

\* C11. No discard when the size is a multiple of 8: with N a multiple of 8,
\* when the batch is complete (flag set, handler returned) the handler has
\* passed exactly N samples to insertSample since the start and none of
\* them was discarded.
C11_NoDiscardWhenMultiple ==
    (N % BankSize = 0 /\ Observable /\ sample_buffer_full # 0) =>
        /\ Len(drained) = N
        /\ discarded = 0

\* C12. Range: every entry of the buffer is in 0 .. 1023, and every entry
\* stored since the start is the raw result passed to insertSample modulo
\* 1024, whatever bits the raw result has above bit 9.
C12_Range ==
    /\ \A i \in Positions : adc_sample_buffer[i] \in 0 .. (SampleMod - 1)
    /\ \A i \in written :
           /\ i + 1 <= Len(drained)
           /\ adc_sample_buffer[i] = drained[i + 1] % SampleMod

\* A raw result of 2^31 - 1 has been stored as 1023, and one with bit 10
\* set and low bits 1022 as 1022.
C12_Witness ==
    /\ 1 \in written
    /\ drained[1] = SampleMod * MaxRawHigh + (SampleMod - 1)
    /\ adc_sample_buffer[0] = SampleMod - 1
    /\ drained[2] >= SampleMod
    /\ adc_sample_buffer[1] = SampleMod - 2

\* Conversions that are enough to complete a batch from any point of it:
\* N \div 8 + 1 handler invocations make more than N insertSample calls.
EnoughConversions == seq + BankSize * (N \div BankSize + 1) <= MaxConvLive

\* C13. Liveness: with Timer3, the ADC, the handler and the foreground's own
\* statements running, once beginFillingADCBuffer has been called the flag
\* is eventually set with Timer3 off, unless beginFillingADCBuffer is called
\* again; and testADC's poll loop is eventually left with the flag set.
C13_Liveness ==
    /\ [](  (nstarts >= 1 /\ OutsideReset /\ EnoughConversions)
          => <>((sample_buffer_full # 0 /\ ~T3ON) \/ ~OutsideReset))
    /\ [](  (pc = "poll" /\ EnoughConversions)
          => <>(pc = "stats" /\ sample_buffer_full # 0 /\ ~T3ON))

\* testADC has left its poll loop on a batch of at least 8 samples.
C13_Witness ==
    /\ pc = "stats"
    /\ inTest
    /\ N >= BankSize
    /\ sample_buffer_full # 0
    /\ ~T3ON
    /\ written = Positions

\* C14. No way out of the wait without a signal: while testADC polls and no
\* handler invocation has begun since the start, the flag is 0; the flag
\* becomes non-zero only in an insertSample of the handler; and the poll
\* loop is left only to the statistics, with the flag non-zero and after
\* the handler has passed samples to insertSample.
C14_NoExitWithoutSignal ==
    [][ /\ (pc = "poll" /\ hruns = 0 /\ hpc = 0) => sample_buffer_full = 0
        /\ (sample_buffer_full = 0 /\ sample_buffer_full' # 0) =>
               (hpc \in 1 .. BankSize /\ hpc' = hpc + 1)
        /\ (pc = "poll" /\ pc' # "poll") =>
               (pc' = "stats" /\ sample_buffer_full # 0 /\ drained # <<>>)
      ]_vars

\* testADC waits on a restarted batch for which Timer3 has not fired once.
C14_Witness ==
    /\ pc = "poll"
    /\ origin = "complete"
    /\ hruns = 0
    /\ hpc = 0
    /\ AD1IF = 0
    /\ ~converting
    /\ seq = batchSeq
    /\ sample_buffer_full = 0

\* C15. Batch-controller states: Timer3 is never on while the flag is set;
\* and once beginFillingADCBuffer has been called, in every state the
\* foreground can observe Timer3 is on exactly when the flag is 0 (Filling
\* or Complete).
C15_ArmedIffNotFull ==
    /\ ~(sample_buffer_full # 0 /\ T3ON)
    /\ (nstarts >= 1 /\ Observable) => (T3ON <=> sample_buffer_full = 0)

\* Filling again, with samples stored, after a restart in mid-fill.
C15_Witness ==
    /\ Observable
    /\ origin = "midfill"
    /\ hruns >= 1
    /\ T3ON
    /\ sample_buffer_full = 0
    /\ sample_buffer_current_index > 0

\* C16. Bank selection and slot order: the handler reads BUFS once, on
\* entry, and drains slots 8..15 if BUFS is 0 (lower bank being filled),
\* slots 0..7 otherwise; while it runs, that is the bank the ADC is not
\* filling; each of its 8 steps passes the next slot of that bank, in
\* increasing order, to insertSample; and the 8 samples of an invocation
\* are consecutive conversions in the order they were made.
C16_BankAndSlotOrder ==
    [][ /\ (hpc = 0 /\ hpc' # 0) =>
               (hpc' = 1 /\ hbase' = IF BUFS = 0 THEN BankSize ELSE 0)
        /\ hpc # 0 => hbase = BankSize * (1 - BUFS)
        /\ (hpc \in 1 .. BankSize /\ hpc' # hpc) =>
               /\ hpc' = hpc + 1
               /\ hbase' = hbase
               /\ drained' = Append(drained, ADC1BUF[hbase + hpc - 1])
        /\ (hpc = BankSize + 1 /\ gen = "seq") =>
               /\ Len(drained) >= BankSize
               /\ \A k \in 1 .. (BankSize - 1) :
                      drained[Len(drained) - BankSize + k + 1] =
                          drained[Len(drained) - BankSize + k] + 1
      ]_vars

\* The handler has drained the upper bank, slots 8..15, while the ADC is
\* back at the lower one.
C16_Witness ==
    /\ hpc = BankSize + 1
    /\ gen = "seq"
    /\ BUFS = 0
    /\ hbase = BankSize
    /\ Len(drained) >= BankSize
    /\ drained[Len(drained)] = ADC1BUF[2 * BankSize - 1]
    /\ drained[Len(drained)] = 2 * BankSize

\* C17. Signal-clear ordering: whatever the state of the buffer, AD1IF stays
\* set while the handler runs and is cleared only by the handler's last
\* step, which is its return; before that step the handler makes exactly 8
\* steps, each reading one slot and making one insertSample call; and no
\* step of the handler waits for anything.
C17_ClearAfterDrain ==
    [][ /\ hpc # 0 => AD1IF = 1
        /\ (AD1IF = 1 /\ AD1IF' = 0) => (hpc = BankSize + 1 /\ hpc' = 0)
        /\ (hpc # 0 /\ hpc' = 0) => (hpc = BankSize + 1 /\ AD1IF' = 0)
        /\ (hpc # 0 /\ hpc' # hpc /\ hpc' # 0) =>
               /\ hpc \in 1 .. BankSize
               /\ hpc' = hpc + 1
               /\ Len(drained') = Len(drained) + 1
        /\ hpc \in 1 .. BankSize => ENABLED ADCHandler_insert
        /\ hpc = BankSize + 1 => ENABLED ADCHandler_clear
      ]_vars

\* An invocation that began with the flag already set has made its 8
\* inserts and is about to clear AD1IF.
C17_Witness ==
    /\ hpc = BankSize + 1
    /\ AD1IF = 1
    /\ sample_buffer_full # 0
    /\ discarded > BankSize

\* C18, as claimed. Stop at the first full insert: once an insertSample of
\* the running invocation has found the buffer full, the handler makes no
\* further insertSample call in that invocation.
C18_StopsWhenFull ==
    [][ (hpc \in 2 .. BankSize /\ sample_buffer_full # 0) => drained' = drained ]_vars

\* C18, amended. The handler drains on: a handler step that finds the
\* buffer full (index >= N) still reads its slot and calls insertSample,
\* which turns Timer3 off, sets the flag and stores nothing; the handler
\* moves to its next step, and returns only after the 8th.
C18_DrainsOnWhenFull ==
    [][ /\ (hpc \in 1 .. BankSize /\ sample_buffer_current_index >= N /\ hpc' # hpc) =>
               /\ hpc' = hpc + 1
               /\ drained' = Append(drained, ADC1BUF[hbase + hpc - 1])
               /\ discarded' = discarded + 1
               /\ sample_buffer_full' = 1
               /\ ~T3ON'
               /\ UNCHANGED <<adc_sample_buffer, sample_buffer_current_index>>
        /\ (hpc # 0 /\ hpc' = 0) => hpc = BankSize + 1
      ]_vars

\* The invocation that filled the buffer has gone on to its 8th insert:
\* more than one of its samples was discarded.
C18_Witness ==
    /\ hpc = BankSize + 1
    /\ sample_buffer_full # 0
    /\ written = Positions
    /\ discarded \in 2 .. BankSize
    /\ Len(drained) = N + discarded

\* C19. Single-writer frame conditions: the index changes only by +1 in a
\* handler step that stores a sample (at the old index, leaving every other
\* entry alone) or to 0 at line 164 of beginFillingADCBuffer, so it never
\* decreases between two starts; no foreground step, beginFillingADCBuffer
\* included, changes a buffer entry; the flag is cleared only at line 165,
\* never by the handler; and a handler step that finds the buffer full
\* changes neither the index nor the buffer.
C19_Frame ==
    [][ /\ sample_buffer_current_index' # sample_buffer_current_index =>
               \/ /\ hpc \in 1 .. BankSize
                  /\ hpc' = hpc + 1
                  /\ sample_buffer_current_index < N
                  /\ sample_buffer_current_index' = sample_buffer_current_index + 1
                  /\ \A i \in Positions \ {sample_buffer_current_index} :
                         adc_sample_buffer'[i] = adc_sample_buffer[i]
               \/ /\ pc = "l164"
                  /\ pc' = "l165"
                  /\ hpc = 0
                  /\ sample_buffer_current_index' = 0
        /\ sample_buffer_current_index' < sample_buffer_current_index => pc = "l164"
        /\ (hpc \in 1 .. BankSize /\ hpc' # hpc /\ sample_buffer_current_index < N) =>
               /\ sample_buffer_current_index' = sample_buffer_current_index + 1
               /\ adc_sample_buffer'[sample_buffer_current_index] =
                      ADC1BUF[hbase + hpc - 1] % SampleMod
        /\ adc_sample_buffer' # adc_sample_buffer =>
               (hpc \in 1 .. BankSize /\ hpc' = hpc + 1)
        /\ pc' # pc => adc_sample_buffer' = adc_sample_buffer
        /\ (sample_buffer_full # 0 /\ sample_buffer_full' = 0) =>
               (pc = "l165" /\ pc' = "l166" /\ hpc = 0 /\ hpc' = 0)
        /\ (hpc \in 1 .. BankSize /\ hpc' # hpc /\ sample_buffer_current_index >= N) =>
               UNCHANGED <<sample_buffer_current_index, adc_sample_buffer>>
      ]_vars

\* A restart has set a non-zero index back to 0 and the handler has since
\* advanced it again, one per insert.
C19_Witness ==
    /\ origin = "midfill"
    /\ hruns = 0
    /\ hpc \in 2 .. BankSize
    /\ sample_buffer_full = 0
    /\ sample_buffer_current_index = hpc - 1
    /\ written = 0 .. (hpc - 2)

====
